---- MODULE Spec2Model ----
(***************************************************************************)
(* Model of util/options.cc: the option aggregates of the storage engine   *)
(* (AdvancedColumnFamilyOptions, ColumnFamilyOptions, DBOptions, Options), *)
(* the derivation constructors between them, ColumnFamilyOptions::Dump and *)
(* the preset transformers.                                                *)
(*                                                                         *)
(* One Options instance `opt` is being configured.  Every operation of the *)
(* file is one action; `last` records the most recent operation: its name, *)
(* its argument, the configuration it started from, what it produced, the  *)
(* lines it logged, the requests it sent to the environment and how it     *)
(* ended.                                                                  *)
(*                                                                         *)
(* Representation.                                                         *)
(*  - A configuration is a function from field names to values.            *)
(*  - A polymorphic collaborator (shared_ptr / raw pointer field) is a     *)
(*    record [isnull, name, cfg]; a copy of the pointer is a copy of the   *)
(*    record, two collaborators are compared by name and configuration.    *)
(*  - uint64_t values that the code multiplies, or that exceed 2^31, are   *)
(*    kept exactly as four 16-bit limbs, least significant first, so that  *)
(*    64-bit wrap-around is computed and not assumed away.  The other      *)
(*    integer fields only ever hold values below 2^31 here and are plain   *)
(*    integers; size_t is taken to be 64 bits wide (LP64 build).           *)
(*  - double fields are never computed with; they hold their literal.      *)
(***************************************************************************)
EXTENDS Integers, Sequences, FiniteSets, TLC

VARIABLES opt, last, build

vars == <<opt, last, build>>

(***************************************************************************)
(* Bounds of the model.                                                    *)
(***************************************************************************)
\* num_levels ranges over 0..MaxLevels in the initial configurations, and
\* max_bytes_for_level_multiplier_additional over the lengths 0, 2 and
\* MaxLevels + 1.
MaxLevels == 4

(***************************************************************************)
(* Field lists.                                                            *)
(***************************************************************************)
\* The members named by the initializer list of
\* AdvancedColumnFamilyOptions(const Options&).
ACFOCopiedFields ==
  { "max_write_buffer_number", "min_write_buffer_number_to_merge",
    "max_write_buffer_number_to_maintain", "inplace_update_support",
    "inplace_update_num_locks", "inplace_callback",
    "memtable_prefix_bloom_size_ratio", "memtable_huge_page_size",
    "memtable_insert_with_hint_prefix_extractor", "bloom_locality",
    "arena_block_size", "compression_per_level", "num_levels",
    "level0_slowdown_writes_trigger", "level0_stop_writes_trigger",
    "target_file_size_base", "target_file_size_multiplier",
    "level_compaction_dynamic_level_bytes", "max_bytes_for_level_multiplier",
    "max_bytes_for_level_multiplier_additional", "max_compaction_bytes",
    "soft_pending_compaction_bytes_limit",
    "hard_pending_compaction_bytes_limit", "compaction_style",
    "compaction_pri", "compaction_options_universal",
    "compaction_options_fifo", "max_sequential_skip_in_iterations",
    "memtable_factory", "table_properties_collector_factories",
    "max_successive_merges", "optimize_filters_for_hits",
    "paranoid_file_checks", "force_consistency_checks", "report_bg_io_stats" }

\* The members named by the initializer list of
\* ColumnFamilyOptions(const Options&), after the base-class initializer.
CFOCopiedFields ==
  { "comparator", "merge_operator", "compaction_filter",
    "compaction_filter_factory", "write_buffer_size", "compression",
    "bottommost_compression", "compression_opts",
    "level0_file_num_compaction_trigger", "prefix_extractor",
    "max_bytes_for_level_base", "disable_auto_compactions", "table_factory" }

\* Members of ColumnFamilyOptions that ColumnFamilyOptions::Dump reads and that
\* no initializer list of the derivation constructors names.
CFUncopiedFields == { "rate_limit_delay_max_milliseconds" }

\* The members named by the initializer list of DBOptions(const Options&).
DBCopiedFields ==
  { "create_if_missing", "create_missing_column_families", "error_if_exists",
    "paranoid_checks", "env", "rate_limiter", "sst_file_manager", "info_log",
    "info_log_level", "max_open_files", "max_file_opening_threads",
    "max_total_wal_size", "statistics", "use_fsync", "db_paths", "db_log_dir",
    "wal_dir", "delete_obsolete_files_period_micros",
    "base_background_compactions", "max_background_compactions",
    "max_subcompactions", "max_background_flushes", "max_log_file_size",
    "log_file_time_to_roll", "keep_log_file_num", "recycle_log_file_num",
    "max_manifest_file_size", "table_cache_numshardbits", "WAL_ttl_seconds",
    "WAL_size_limit_MB", "manifest_preallocation_size", "allow_mmap_reads",
    "allow_mmap_writes", "use_direct_reads", "use_direct_writes",
    "allow_fallocate", "is_fd_close_on_exec", "skip_log_error_on_recovery",
    "stats_dump_period_sec", "advise_random_on_open", "db_write_buffer_size",
    "write_buffer_manager", "access_hint_on_compaction_start",
    "new_table_reader_for_compaction_inputs", "compaction_readahead_size",
    "random_access_max_buffer_size", "writable_file_max_buffer_size",
    "use_adaptive_mutex", "bytes_per_sync", "wal_bytes_per_sync", "listeners",
    "enable_thread_tracking", "delayed_write_rate", "enable_pipeline_write",
    "allow_concurrent_memtable_write", "enable_write_thread_adaptive_yield",
    "write_thread_max_yield_usec", "write_thread_slow_yield_usec",
    "skip_stats_update_on_db_open", "wal_recovery_mode", "row_cache",
    "wal_filter", "fail_if_options_file_error", "dump_malloc_stats",
    "avoid_flush_during_recovery", "avoid_flush_during_shutdown" }

\* The column-family half and the database-wide half of Options.
CFFields == ACFOCopiedFields \cup CFOCopiedFields \cup CFUncopiedFields

DBFields == DBCopiedFields

OptionsFields == CFFields \cup DBFields

(***************************************************************************)
(* 64-bit unsigned arithmetic on 16-bit limbs.                             *)
(***************************************************************************)
LimbBase == 65536

\* The exact product of a little-endian limb vector and a small factor:
\* one limb longer than x, nothing dropped.
RECURSIVE MulCarry(_, _, _)
MulCarry(x, k, carry) ==
  IF x = <<>> THEN <<carry>>
  ELSE LET p == Head(x) * k + carry
       IN  <<p % LimbBase>> \o MulCarry(Tail(x), k, p \div LimbBase)

MulExact(x, k) == MulCarry(x, k, 0)

\* uint64_t multiplication by a small factor: the carry out of the fourth
\* limb is dropped (arithmetic modulo 2^64).
MulU64(x, k) == SubSeq(MulExact(x, k), 1, 4)

\* A value below 2^31 as a uint64_t.
ToU64(n) == << n % LimbBase, n \div LimbBase, 0, 0 >>

(***************************************************************************)
(* Collaborators.                                                          *)
(***************************************************************************)
NoCfg == [ index_type |-> "", filter_bits_per_key |-> 0,
           block_cache_capacity |-> ToU64(0) ]

nullptr == [ isnull |-> TRUE, name |-> "", cfg |-> NoCfg ]

Obj(name) == [ isnull |-> FALSE, name |-> name, cfg |-> NoCfg ]

\* new BlockBasedTableFactory(table_options)
BlockBasedTableFactory(table_options) ==
  [ isnull |-> FALSE, name |-> "BlockBasedTable", cfg |-> table_options ]

\* BlockBasedTableOptions(): binary-search index, no filter policy, the
\* default 8 MiB block cache.
DefaultBlockBasedTableOptions ==
  [ index_type |-> "kBinarySearch", filter_bits_per_key |-> 0,
    block_cache_capacity |-> ToU64(8 * 1024 * 1024) ]

(***************************************************************************)
(* Enumerations (values of the public headers).                            *)
(***************************************************************************)
kCompactionStyleLevel == 0

kCompactionStyleUniversal == 1

kCompactionStyleFIFO == 2

kCompactionStyleNone == 3

kByCompensatedSize == 0

kOldestLargestSeqFirst == 1

kOldestSmallestSeqFirst == 2

kMinOverlappingRatio == 3

kNoCompression == 0

kSnappyCompression == 1

kDisableCompressionOption == 255

kTolerateCorruptedTailRecords == 0

kPointInTimeRecovery == 2

\* The name tables the reporter looks the enumerations up in.
compaction_style_to_string ==
  [ s \in { kCompactionStyleLevel, kCompactionStyleUniversal,
            kCompactionStyleFIFO, kCompactionStyleNone } |->
      CASE s = kCompactionStyleLevel -> "kCompactionStyleLevel"
        [] s = kCompactionStyleUniversal -> "kCompactionStyleUniversal"
        [] s = kCompactionStyleFIFO -> "kCompactionStyleFIFO"
        [] OTHER -> "kCompactionStyleNone" ]

compaction_pri_to_string ==
  [ p \in { kByCompensatedSize, kOldestLargestSeqFirst,
            kOldestSmallestSeqFirst, kMinOverlappingRatio } |->
      CASE p = kByCompensatedSize -> "kByCompensatedSize"
        [] p = kOldestLargestSeqFirst -> "kOldestLargestSeqFirst"
        [] p = kOldestSmallestSeqFirst -> "kOldestSmallestSeqFirst"
        [] OTHER -> "kMinOverlappingRatio" ]

CompressionTypeToString(c) ==
  CASE c = kNoCompression -> "NoCompression"
    [] c = kSnappyCompression -> "Snappy"
    [] OTHER -> "Unknown_" \o ToString(c)

(***************************************************************************)
(* The field catalog: the value every field has after default construction *)
(* (member initializers of the headers), and the constructors.             *)
(***************************************************************************)
BoolFields ==
  { "inplace_update_support", "level_compaction_dynamic_level_bytes",
    "optimize_filters_for_hits", "paranoid_file_checks",
    "force_consistency_checks", "report_bg_io_stats",
    "disable_auto_compactions", "create_if_missing",
    "create_missing_column_families", "error_if_exists", "paranoid_checks",
    "use_fsync", "allow_mmap_reads", "allow_mmap_writes", "use_direct_reads",
    "use_direct_writes", "allow_fallocate", "is_fd_close_on_exec",
    "skip_log_error_on_recovery", "advise_random_on_open",
    "new_table_reader_for_compaction_inputs", "use_adaptive_mutex",
    "enable_thread_tracking", "enable_pipeline_write",
    "allow_concurrent_memtable_write", "enable_write_thread_adaptive_yield",
    "skip_stats_update_on_db_open", "fail_if_options_file_error",
    "dump_malloc_stats", "avoid_flush_during_recovery",
    "avoid_flush_during_shutdown" }

PointerFields ==
  { "inplace_callback", "memtable_insert_with_hint_prefix_extractor",
    "merge_operator", "compaction_filter", "compaction_filter_factory",
    "prefix_extractor", "rate_limiter", "sst_file_manager", "info_log",
    "statistics", "write_buffer_manager", "row_cache", "wal_filter" }

ListFields == { "table_properties_collector_factories", "db_paths",
                "listeners", "compression_per_level" }

StringFields == { "db_log_dir", "wal_dir", "memtable_prefix_bloom_size_ratio",
                  "max_bytes_for_level_multiplier" }

\* max_bytes_for_level_multiplier_additional(num_levels, 1)
Ones(n) == [ i \in 1..n |-> 1 ]

\* Fields whose default is not FALSE, nullptr, empty or 0.
CatalogSpecific ==
  [ comparator |-> Obj("leveldb.BytewiseComparator"),
    memtable_factory |-> Obj("SkipListFactory"),
    table_factory |-> BlockBasedTableFactory(DefaultBlockBasedTableOptions),
    env |-> Obj("Env::Default"),
    memtable_prefix_bloom_size_ratio |-> "0.0",
    max_bytes_for_level_multiplier |-> "10",
    num_levels |-> MaxLevels,
    max_bytes_for_level_multiplier_additional |-> Ones(MaxLevels),
    max_write_buffer_number |-> 2,
    min_write_buffer_number_to_merge |-> 1,
    level0_file_num_compaction_trigger |-> 4,
    level0_slowdown_writes_trigger |-> 20,
    level0_stop_writes_trigger |-> 36,
    write_buffer_size |-> 64 * 1048576,
    target_file_size_base |-> 64 * 1048576,
    target_file_size_multiplier |-> 1,
    max_bytes_for_level_base |-> 256 * 1048576,
    max_compaction_bytes |-> ToU64(0),
    soft_pending_compaction_bytes_limit |-> 64 * 1048576,
    hard_pending_compaction_bytes_limit |-> 256 * 1048576,
    rate_limit_delay_max_milliseconds |-> 100,
    compaction_style |-> kCompactionStyleLevel,
    compaction_pri |-> kByCompensatedSize,
    compaction_options_universal |->
      [ size_ratio |-> 1, min_merge_width |-> 2, max_merge_width |-> 1000,
        max_size_amplification_percent |-> 200,
        compression_size_percent |-> -1 ],
    compaction_options_fifo |-> [ max_table_files_size |-> 1024 * 1048576 ],
    compression_opts |-> [ window_bits |-> -14, level |-> -1, strategy |-> 0,
                           max_dict_bytes |-> 0 ],
    compression |-> kSnappyCompression,
    bottommost_compression |-> kDisableCompressionOption,
    max_open_files |-> -1,
    max_file_opening_threads |-> 16,
    table_cache_numshardbits |-> 6,
    base_background_compactions |-> 1,
    max_background_compactions |-> 1,
    max_background_flushes |-> 1,
    max_subcompactions |-> 1,
    delayed_write_rate |-> 16 * 1048576,
    wal_recovery_mode |-> kPointInTimeRecovery ]

\* DBOptions::DBOptions() and AdvancedColumnFamilyOptions's member
\* initializers: every field at its catalog default.
Catalog ==
  CatalogSpecific @@
  [ f \in OptionsFields |->
      IF f \in BoolFields THEN FALSE
      ELSE IF f \in PointerFields THEN nullptr
      ELSE IF f \in ListFields THEN <<>>
      ELSE IF f \in StringFields THEN ""
      ELSE 0 ]

\* ColumnFamilyOptions::ColumnFamilyOptions(): the catalog defaults, the
\* compression the build supports and a fresh block-based table factory.
DefaultColumnFamilyOptions(snappy) ==
  [ f \in CFFields |->
      IF f = "compression"
        THEN (IF snappy THEN kSnappyCompression ELSE kNoCompression)
      ELSE IF f = "table_factory"
        THEN BlockBasedTableFactory(DefaultBlockBasedTableOptions)
      ELSE Catalog[f] ]

\* DBOptions::DBOptions()
DefaultDBOptions == [ f \in DBFields |-> Catalog[f] ]

(***************************************************************************)
(* Derivation constructors.                                                *)
(***************************************************************************)
\* std::vector<int>::resize(n, fill)
Resize(v, n, fill) ==
  IF n <= Len(v) THEN SubSeq(v, 1, n)
  ELSE v \o [ i \in 1..(n - Len(v)) |-> fill ]

\* assert(cond): checked unless the build defines NDEBUG.
AssertionHolds(cond) == build.NDEBUG \/ cond

\* AdvancedColumnFamilyOptionsFrom with the length test dropped: the vector is
\* resized to num_levels whatever its length.
AdvancedColumnFamilyOptionsFrom_AlwaysResize(options) ==
  LET copied == [ f \in ACFOCopiedFields |-> options[f] ]
  IN  [ copied EXCEPT
          !.max_bytes_for_level_multiplier_additional =
            Resize(@, copied.num_levels, 1) ]
      @@ [ f \in CFUncopiedFields |-> Catalog[f] ]

\* AdvancedColumnFamilyOptions(const Options&): the listed members are copied,
\* the others keep their member initializers, then the constructor body pads
\* max_bytes_for_level_multiplier_additional.  num_levels is never negative
\* in a modelled configuration, so static_cast<unsigned int> preserves it.
AdvancedColumnFamilyOptionsFrom(options) ==
  LET copied == [ f \in ACFOCopiedFields |-> options[f] ]
      addl == copied.max_bytes_for_level_multiplier_additional
      body == IF Len(addl) < copied.num_levels
                THEN [ copied EXCEPT
                         !.max_bytes_for_level_multiplier_additional =
                           Resize(addl, copied.num_levels, 1) ]
                ELSE copied
  IN  body @@ [ f \in CFUncopiedFields |-> Catalog[f] ]

\* ColumnFamilyOptions(const Options&)
ColumnFamilyOptionsFrom(options) ==
  AdvancedColumnFamilyOptionsFrom(options) @@
  [ f \in CFOCopiedFields |-> options[f] ]

\* DBOptions(const Options&)
DBOptionsFrom(options) == [ f \in DBCopiedFields |-> options[f] ]

\* Options(const DBOptions&, const ColumnFamilyOptions&): the two base
\* sub-objects are copy-constructed member by member.
Reassemble(db_options, column_family_options) ==
  db_options @@ column_family_options

(***************************************************************************)
(* Initial states: an Options object that was default-constructed and then *)
(* had public fields assigned by the application.                          *)
(***************************************************************************)
\* 2,1,2,1,... : a per-level override whose entries differ from the padding
AddlPattern(n) == [ i \in 1..n |-> IF i % 2 = 1 THEN 2 ELSE 1 ]

InitAddl == { AddlPattern(n) : n \in {0, 2, MaxLevels + 1} }

InitFactories ==
  { [ memtable_factory |-> Catalog.memtable_factory,
      table_factory |-> Catalog.table_factory ],
    [ memtable_factory |-> Catalog.memtable_factory,
      table_factory |-> nullptr ],
    [ memtable_factory |-> nullptr,
      table_factory |-> Catalog.table_factory ] }

\* the optional collaborators: all absent, or all present
InitOptional ==
  { [ f \in { "merge_operator", "compaction_filter",
              "compaction_filter_factory", "prefix_extractor",
              "memtable_insert_with_hint_prefix_extractor" } |->
        IF present THEN Obj(f) ELSE nullptr ] : present \in BOOLEAN }

\* a value with no entry in the name tables
UnknownEnum == 7

InitEnums ==
  { [ compaction_style |-> kCompactionStyleLevel,
      compaction_pri |-> kByCompensatedSize ],
    [ compaction_style |-> UnknownEnum,
      compaction_pri |-> kMinOverlappingRatio ],
    [ compaction_style |-> kCompactionStyleUniversal,
      compaction_pri |-> UnknownEnum ] }

InitPlain ==
  { [ rate_limit_delay_max_milliseconds |-> 100, max_open_files |-> -1,
      create_if_missing |-> FALSE, max_successive_merges |-> 0 ],
    [ rate_limit_delay_max_milliseconds |-> 5, max_open_files |-> 300,
      create_if_missing |-> TRUE, max_successive_merges |-> 8 ] }

InitOptions ==
  { plain @@ enums @@ optional @@ factories @@
    [ num_levels |-> n, max_bytes_for_level_multiplier_additional |-> addl ]
    @@ Catalog :
      plain \in InitPlain, enums \in InitEnums, optional \in InitOptional,
      factories \in InitFactories, n \in 0..MaxLevels, addl \in InitAddl }

Builds == [ NDEBUG : BOOLEAN, Snappy_Supported : BOOLEAN ]

NoResult == <<>>

Record(op, arg, pre, out, log, env, outcome) ==
  [ op |-> op, arg |-> arg, pre |-> pre, out |-> out, log |-> log,
    env |-> env, outcome |-> outcome,
    again |-> (last.op = op /\ last.arg = arg), presets |-> last.presets ]

Started(o) ==
  [ op |-> "assign", arg |-> <<>>, pre |-> o, out |-> NoResult,
    log |-> <<>>, env |-> <<>>, outcome |-> "ok", again |-> FALSE,
    presets |-> 0 ]

\* The baseline configurations the presets are applied to: the catalog with
\* every level count.
BaselineOptions ==
  { [ num_levels |-> n, max_bytes_for_level_multiplier_additional |-> Ones(n) ]
    @@ Catalog : n \in 0..MaxLevels }

Init ==
  /\ build \in Builds
  /\ opt \in BaselineOptions
  /\ last = Started(opt)

\* The application-assigned configurations the derivation constructors and
\* the reporter are run on.
InitAssigned ==
  /\ build \in Builds
  /\ opt \in InitOptions
  /\ last = Started(opt)

\* Pending-compaction limits an application assigns before tuning, soft no
\* greater than hard: the catalog's, both 1, and both 2^31 - 1.
InitPendingLimits ==
  { [ soft_pending_compaction_bytes_limit |-> 64 * 1048576,
      hard_pending_compaction_bytes_limit |-> 256 * 1048576 ],
    [ soft_pending_compaction_bytes_limit |-> 1,
      hard_pending_compaction_bytes_limit |-> 1 ],
    [ soft_pending_compaction_bytes_limit |-> 2147483647,
      hard_pending_compaction_bytes_limit |-> 2147483647 ] }

\* The application-tuned configurations the presets are applied to.
TunedOptions ==
  { limits @@ [ num_levels |-> n,
                 max_bytes_for_level_multiplier_additional |-> Ones(n) ]
    @@ Catalog : limits \in InitPendingLimits, n \in { 2, MaxLevels } }

InitTuned ==
  /\ build \in Builds
  /\ opt \in TunedOptions
  /\ last = Started(opt)

\* The process is still running: no assertion has failed and nothing crashed.
Running == last.outcome = "ok"

(***************************************************************************)
(* Construction and derivation.                                            *)
(***************************************************************************)
\* Options(): DBOptions() and ColumnFamilyOptions(); the assertion of
\* AdvancedColumnFamilyOptions() is on the catalog's memtable factory.
NewOptions ==
  /\ Running
  /\ LET o == Reassemble(DefaultDBOptions,
                         DefaultColumnFamilyOptions(build.Snappy_Supported))
         held == AssertionHolds(~ o.memtable_factory.isnull)
     IN  /\ opt' = IF held THEN o ELSE opt
         /\ last' = Record("Options", <<>>, opt, NoResult, <<>>, <<>>,
                           IF held THEN "ok" ELSE "aborted")
  /\ UNCHANGED build

\* ColumnFamilyOptions cf(opt);
DeriveColumnFamilyOptions ==
  /\ Running
  /\ LET held == AssertionHolds(~ opt.memtable_factory.isnull)
     IN  last' = Record("ColumnFamilyOptions", <<>>, opt,
                        IF held THEN ColumnFamilyOptionsFrom(opt)
                                ELSE NoResult,
                        <<>>, <<>>, IF held THEN "ok" ELSE "aborted")
  /\ UNCHANGED <<opt, build>>

\* DBOptions db(opt);
DeriveDBOptions ==
  /\ Running
  /\ last' = Record("DBOptions", <<>>, opt, DBOptionsFrom(opt), <<>>, <<>>,
                    "ok")
  /\ UNCHANGED <<opt, build>>

\* Options o(DBOptions(opt), ColumnFamilyOptions(opt));
SplitAndReassemble ==
  /\ Running
  /\ LET held == AssertionHolds(~ opt.memtable_factory.isnull)
     IN  last' = Record("Options(db,cf)", <<>>, opt,
                        IF held THEN Reassemble(DBOptionsFrom(opt),
                                                ColumnFamilyOptionsFrom(opt))
                                ELSE NoResult,
                        <<>>, <<>>, IF held THEN "ok" ELSE "aborted")
  /\ UNCHANGED <<opt, build>>

(***************************************************************************)
(* ColumnFamilyOptions::Dump                                               *)
(***************************************************************************)
\* "%d" of a bool
BoolToString(b) == IF b THEN "1" ELSE "0"

\* Decimal rendering of a uint64_t ("%" PRIu64): long division of the limbs
\* by ten, most significant limb first.
RECURSIVE DivTen(_, _)
DivTen(x, rem) ==
  IF x = <<>> THEN [ quot |-> <<>>, rem |-> rem ]
  ELSE LET n == Len(x)
           cur == rem * LimbBase + x[n]
           rest == DivTen(SubSeq(x, 1, n - 1), cur % 10)
       IN  [ quot |-> rest.quot \o <<cur \div 10>>, rem |-> rest.rem ]

IsZero(x) == \A i \in 1..Len(x) : x[i] = 0

RECURSIVE U64Digits(_)
U64Digits(x) ==
  IF IsZero(x) THEN ""
  ELSE LET d == DivTen(x, 0) IN U64Digits(d.quot) \o ToString(d.rem)

U64ToString(x) == IF IsZero(x) THEN "0" ELSE U64Digits(x)

\* TableFactory::GetPrintableTableOptions()
GetPrintableTableOptions(table_factory) ==
  "index_type: " \o table_factory.cfg.index_type
  \o " filter_policy bits_per_key: "
  \o ToString(table_factory.cfg.filter_bits_per_key)
  \o " block_cache capacity: "
  \o U64ToString(table_factory.cfg.block_cache_capacity)

\* One ROCKS_LOG_HEADER call: the text it would log and what evaluating its
\* arguments does ("none", a failing "assertion", a "nullderef").
Line(label, text) == [ label |-> label, text |-> text, fault |-> "none" ]

\* p->Name() with no null test in front of it
Deref(label, p, text) ==
  [ label |-> label, text |-> text,
    fault |-> IF p.isnull THEN "nullderef" ELSE "none" ]

\* p ? p->Name() : placeholder
NameOr(p, placeholder) == IF p.isnull THEN placeholder ELSE p.name

\* EnumLine with the fallback string never assigned: the line is logged with
\* the empty string.
EnumLine_NoFallback(label, table, value) ==
  IF value \in DOMAIN table
    THEN Line(label, table[value])
    ELSE [ label |-> label, text |-> "", fault |-> "assertion" ]

\* the enum lookup: find() in the name table, assert(false) and the
\* "unknown_" fallback when there is no entry
EnumLine(label, table, value) ==
  IF value \in DOMAIN table
    THEN Line(label, table[value])
    ELSE [ label |-> label, text |-> "unknown_" \o ToString(value),
           fault |-> "assertion" ]

\* collector_names: every factory's name followed by "; "
RECURSIVE CollectorNames(_)
CollectorNames(factories) ==
  IF factories = <<>> THEN ""
  ELSE Head(factories).name \o "; " \o CollectorNames(Tail(factories))

\* The calls of ColumnFamilyOptions::Dump in source order.
DumpCalls(o) ==
  << Line("Options.comparator", o.comparator.name),
     Line("Options.merge_operator", NameOr(o.merge_operator, "None")),
     Line("Options.compaction_filter", NameOr(o.compaction_filter, "None")),
     Line("Options.compaction_filter_factory",
          NameOr(o.compaction_filter_factory, "None")),
     Deref("Options.memtable_factory", o.memtable_factory,
           o.memtable_factory.name),
     Deref("Options.table_factory", o.table_factory, o.table_factory.name),
     Deref("table_factory options", o.table_factory,
           GetPrintableTableOptions(o.table_factory)),
     Line("Options.write_buffer_size", ToString(o.write_buffer_size)),
     Line("Options.max_write_buffer_number",
          ToString(o.max_write_buffer_number)) >>
  \o (IF o.compression_per_level # <<>>
        THEN [ i \in 1..Len(o.compression_per_level) |->
                 Line("Options.compression[" \o ToString(i - 1) \o "]",
                      CompressionTypeToString(o.compression_per_level[i])) ]
        ELSE << Line("Options.compression",
                     CompressionTypeToString(o.compression)) >>)
  \o
  << Line("Options.bottommost_compression",
          IF o.bottommost_compression = kDisableCompressionOption
            THEN "Disabled"
            ELSE CompressionTypeToString(o.bottommost_compression)),
     Line("Options.prefix_extractor", NameOr(o.prefix_extractor, "nullptr")),
     Line("Options.memtable_insert_with_hint_prefix_extractor",
          NameOr(o.memtable_insert_with_hint_prefix_extractor, "nullptr")),
     Line("Options.num_levels", ToString(o.num_levels)),
     Line("Options.min_write_buffer_number_to_merge",
          ToString(o.min_write_buffer_number_to_merge)),
     Line("Options.max_write_buffer_number_to_maintain",
          ToString(o.max_write_buffer_number_to_maintain)),
     Line("Options.compression_opts.window_bits",
          ToString(o.compression_opts.window_bits)),
     Line("Options.compression_opts.level",
          ToString(o.compression_opts.level)),
     Line("Options.compression_opts.strategy",
          ToString(o.compression_opts.strategy)),
     Line("Options.compression_opts.max_dict_bytes",
          ToString(o.compression_opts.max_dict_bytes)),
     Line("Options.level0_file_num_compaction_trigger",
          ToString(o.level0_file_num_compaction_trigger)),
     Line("Options.level0_slowdown_writes_trigger",
          ToString(o.level0_slowdown_writes_trigger)),
     Line("Options.level0_stop_writes_trigger",
          ToString(o.level0_stop_writes_trigger)),
     Line("Options.target_file_size_base",
          ToString(o.target_file_size_base)),
     Line("Options.target_file_size_multiplier",
          ToString(o.target_file_size_multiplier)),
     Line("Options.max_bytes_for_level_base",
          ToString(o.max_bytes_for_level_base)),
     Line("Options.level_compaction_dynamic_level_bytes",
          BoolToString(o.level_compaction_dynamic_level_bytes)),
     Line("Options.max_bytes_for_level_multiplier",
          o.max_bytes_for_level_multiplier) >>
  \o [ i \in 1..Len(o.max_bytes_for_level_multiplier_additional) |->
         Line("Options.max_bytes_for_level_multiplier_addtl["
                \o ToString(i - 1) \o "]",
              ToString(o.max_bytes_for_level_multiplier_additional[i])) ]
  \o
  << Line("Options.max_sequential_skip_in_iterations",
          ToString(o.max_sequential_skip_in_iterations)),
     Line("Options.max_compaction_bytes",
          U64ToString(o.max_compaction_bytes)),
     Line("Options.arena_block_size", ToString(o.arena_block_size)),
     Line("Options.soft_pending_compaction_bytes_limit",
          ToString(o.soft_pending_compaction_bytes_limit)),
     Line("Options.hard_pending_compaction_bytes_limit",
          ToString(o.hard_pending_compaction_bytes_limit)),
     Line("Options.rate_limit_delay_max_milliseconds",
          ToString(o.rate_limit_delay_max_milliseconds)),
     Line("Options.disable_auto_compactions",
          BoolToString(o.disable_auto_compactions)),
     EnumLine("Options.compaction_style", compaction_style_to_string,
              o.compaction_style),
     EnumLine("Options.compaction_pri", compaction_pri_to_string,
              o.compaction_pri),
     Line("Options.compaction_options_universal.size_ratio",
          ToString(o.compaction_options_universal.size_ratio)),
     Line("Options.compaction_options_universal.min_merge_width",
          ToString(o.compaction_options_universal.min_merge_width)),
     Line("Options.compaction_options_universal.max_merge_width",
          ToString(o.compaction_options_universal.max_merge_width)),
     Line("Options.compaction_options_universal.max_size_amplification_percent",
          ToString(
            o.compaction_options_universal.max_size_amplification_percent)),
     Line("Options.compaction_options_universal.compression_size_percent",
          ToString(o.compaction_options_universal.compression_size_percent)),
     Line("Options.compaction_options_fifo.max_table_files_size",
          ToString(o.compaction_options_fifo.max_table_files_size)),
     Line("Options.table_properties_collectors",
          CollectorNames(o.table_properties_collector_factories)),
     Line("Options.inplace_update_support",
          BoolToString(o.inplace_update_support)),
     Line("Options.inplace_update_num_locks",
          ToString(o.inplace_update_num_locks)),
     Line("Options.memtable_prefix_bloom_size_ratio",
          o.memtable_prefix_bloom_size_ratio),
     Line("Options.memtable_huge_page_size",
          ToString(o.memtable_huge_page_size)),
     Line("Options.bloom_locality", ToString(o.bloom_locality)),
     Line("Options.max_successive_merges",
          ToString(o.max_successive_merges)),
     Line("Options.optimize_filters_for_hits",
          BoolToString(o.optimize_filters_for_hits)),
     Line("Options.paranoid_file_checks",
          BoolToString(o.paranoid_file_checks)),
     Line("Options.force_consistency_checks",
          BoolToString(o.force_consistency_checks)),
     Line("Options.report_bg_io_stats",
          BoolToString(o.report_bg_io_stats)) >>

\* The number of calls among the first n that dereference a null pointer.
NullDerefsUpTo(calls, n) ==
  Cardinality({ i \in 1..n : calls[i].fault = "nullderef" })

\* Whether call i ends the process: a failing assertion in a build that
\* checks assertions, or the null dereference the process does not survive.
\* A null dereference is undefined behaviour: the process may crash at any of
\* them (crash_at counts them) or carry on with a garbage string.
Fatal(calls, i, crash_at) ==
  \/ calls[i].fault = "assertion" /\ ~ build.NDEBUG
  \/ calls[i].fault = "nullderef" /\ NullDerefsUpTo(calls, i) = crash_at

GarbageString == "<garbage>"

\* Running the calls of the dump: the lines logged up to the first fatal
\* call and the way the dump ended.
Dump(o, crash_at) ==
  LET calls == DumpCalls(o)
      fatal == { i \in 1..Len(calls) : Fatal(calls, i, crash_at) }
      stop == IF fatal = {} THEN Len(calls) + 1
              ELSE CHOOSE i \in fatal : \A j \in fatal : i <= j
      lines == [ i \in 1..(stop - 1) |->
                   [ label |-> calls[i].label,
                     text |-> IF calls[i].fault = "nullderef"
                                THEN GarbageString ELSE calls[i].text ] ]
  IN  [ log |-> lines,
        outcome |-> IF fatal = {} THEN "ok"
                    ELSE IF calls[stop].fault = "assertion" THEN "aborted"
                    ELSE "crashed" ]

\* opt.DumpCFOptions(log) / ColumnFamilyOptions::Dump(log) on opt
DumpCFOptions ==
  /\ Running
  /\ \E crash_at \in 1..(NullDerefsUpTo(DumpCalls(opt),
                                         Len(DumpCalls(opt))) + 1) :
       LET d == Dump(opt, crash_at)
       IN  last' = Record("Dump", <<>>, opt, NoResult, d.log, <<>>,
                          d.outcome)
  /\ UNCHANGED <<opt, build>>

(***************************************************************************)
(* Preset transformers, as functions of the configuration they mutate.     *)
(***************************************************************************)
\* PrepareForBulkLoad lowering the level count to 2 only from below (at least
\* two levels instead of exactly two).
PrepareForBulkLoad_AtLeastTwoLevels(o) ==
  [ o EXCEPT
      !.level0_file_num_compaction_trigger = 1073741824,
      !.level0_slowdown_writes_trigger = 1073741824,
      !.level0_stop_writes_trigger = 1073741824,
      !.soft_pending_compaction_bytes_limit = 0,
      !.hard_pending_compaction_bytes_limit = 0,
      !.disable_auto_compactions = TRUE,
      !.max_compaction_bytes = << 0, 0, 0, 4096 >>,
      !.num_levels = IF o.num_levels < 2 THEN 2 ELSE o.num_levels,
      !.max_write_buffer_number = 6,
      !.min_write_buffer_number_to_merge = 1,
      !.max_background_flushes = 4,
      !.max_background_compactions = 2,
      !.base_background_compactions = 2,
      !.target_file_size_base = 256 * 1024 * 1024 ]

\* Options::PrepareForBulkLoad
PrepareForBulkLoad(o) ==
  [ o EXCEPT
      !.level0_file_num_compaction_trigger = 1073741824,
      !.level0_slowdown_writes_trigger = 1073741824,
      !.level0_stop_writes_trigger = 1073741824,
      !.soft_pending_compaction_bytes_limit = 0,
      !.hard_pending_compaction_bytes_limit = 0,
      !.disable_auto_compactions = TRUE,
      !.max_compaction_bytes = << 0, 0, 0, 4096 >>,
      !.num_levels = 2,
      !.max_write_buffer_number = 6,
      !.min_write_buffer_number_to_merge = 1,
      !.max_background_flushes = 4,
      !.max_background_compactions = 2,
      !.base_background_compactions = 2,
      !.target_file_size_base = 256 * 1024 * 1024 ]

\* VersionBefore with the minor test made inclusive (<= for <).
VersionBefore_Inclusive(rocksdb_major_version, rocksdb_minor_version, major, minor) ==
  \/ rocksdb_major_version < major
  \/ rocksdb_major_version = major /\ rocksdb_minor_version <= minor

\* rocksdb_major_version < major ||
\* (rocksdb_major_version == major && rocksdb_minor_version < minor)
VersionBefore(rocksdb_major_version, rocksdb_minor_version, major, minor) ==
  \/ rocksdb_major_version < major
  \/ rocksdb_major_version = major /\ rocksdb_minor_version < minor

\* DBOptions::OldDefaults
DBOptions_OldDefaults(o, rocksdb_major_version, rocksdb_minor_version) ==
  LET o1 == IF VersionBefore(rocksdb_major_version, rocksdb_minor_version,
                             4, 7)
              THEN [ o EXCEPT !.max_file_opening_threads = 1,
                              !.table_cache_numshardbits = 4 ]
              ELSE o
      o2 == IF VersionBefore(rocksdb_major_version, rocksdb_minor_version,
                             5, 2)
              THEN [ o1 EXCEPT !.delayed_write_rate = 2 * 1024 * 1024 ]
              ELSE o1
  IN  [ o2 EXCEPT !.max_open_files = 5000,
                  !.base_background_compactions = -1,
                  !.wal_recovery_mode = kTolerateCorruptedTailRecords ]

\* ColumnFamilyOptions::OldDefaults without the assignment of the soft limit.
ColumnFamilyOptions_OldDefaults_HardOnly(o, rocksdb_major_version, rocksdb_minor_version) ==
  LET o1 == IF VersionBefore(rocksdb_major_version, rocksdb_minor_version,
                             4, 7)
              THEN [ o EXCEPT
                       !.write_buffer_size = 4 * 1048576,
                       !.target_file_size_base = 2 * 1048576,
                       !.max_bytes_for_level_base = 10 * 1048576,
                       !.hard_pending_compaction_bytes_limit = 0 ]
              ELSE o
      o2 == IF rocksdb_major_version < 5
              THEN [ o1 EXCEPT !.level0_stop_writes_trigger = 24 ]
            ELSE IF rocksdb_major_version = 5 /\ rocksdb_minor_version < 2
              THEN [ o1 EXCEPT !.level0_stop_writes_trigger = 30 ]
            ELSE o1
  IN  [ o2 EXCEPT !.compaction_pri = kByCompensatedSize ]

\* ColumnFamilyOptions::OldDefaults
ColumnFamilyOptions_OldDefaults(o, rocksdb_major_version, rocksdb_minor_version) ==
  LET o1 == IF VersionBefore(rocksdb_major_version, rocksdb_minor_version,
                             4, 7)
              THEN [ o EXCEPT
                       !.write_buffer_size = 4 * 1048576,
                       !.target_file_size_base = 2 * 1048576,
                       !.max_bytes_for_level_base = 10 * 1048576,
                       !.soft_pending_compaction_bytes_limit = 0,
                       !.hard_pending_compaction_bytes_limit = 0 ]
              ELSE o
      o2 == IF rocksdb_major_version < 5
              THEN [ o1 EXCEPT !.level0_stop_writes_trigger = 24 ]
            ELSE IF rocksdb_major_version = 5 /\ rocksdb_minor_version < 2
              THEN [ o1 EXCEPT !.level0_stop_writes_trigger = 30 ]
            ELSE o1
  IN  [ o2 EXCEPT !.compaction_pri = kByCompensatedSize ]

\* Options::OldDefaults: the column-family half, then the database-wide half
Options_OldDefaults(o, rocksdb_major_version, rocksdb_minor_version) ==
  DBOptions_OldDefaults(
    ColumnFamilyOptions_OldDefaults(o, rocksdb_major_version,
                                    rocksdb_minor_version),
    rocksdb_major_version, rocksdb_minor_version)

\* DBOptions::OptimizeForSmallDb
DBOptions_OptimizeForSmallDb(o) ==
  [ o EXCEPT !.max_file_opening_threads = 1, !.max_open_files = 5000 ]

\* ColumnFamilyOptions::OptimizeForSmallDb also capping the open files, an
\* assignment of the database-wide half.
ColumnFamilyOptions_OptimizeForSmallDb_OpenFiles(o) ==
  [ o EXCEPT !.write_buffer_size = 2 * 1048576,
             !.target_file_size_base = 2 * 1048576,
             !.max_bytes_for_level_base = 10 * 1048576,
             !.soft_pending_compaction_bytes_limit = 256 * 1048576,
             !.hard_pending_compaction_bytes_limit = 1073741824,
             !.max_open_files = 5000 ]

\* ColumnFamilyOptions::OptimizeForSmallDb
ColumnFamilyOptions_OptimizeForSmallDb(o) ==
  [ o EXCEPT !.write_buffer_size = 2 * 1048576,
             !.target_file_size_base = 2 * 1048576,
             !.max_bytes_for_level_base = 10 * 1048576,
             !.soft_pending_compaction_bytes_limit = 256 * 1048576,
             !.hard_pending_compaction_bytes_limit = 1073741824 ]

\* Options::OptimizeForSmallDb
Options_OptimizeForSmallDb(o) ==
  DBOptions_OptimizeForSmallDb(ColumnFamilyOptions_OptimizeForSmallDb(o))

\* BlockCacheCapacity with one factor of 1024 missing (KiB for MiB).
BlockCacheCapacity_KiB(block_cache_size_mb) ==
  MulU64(block_cache_size_mb, 1024)

\* NewLRUCache(static_cast<size_t>(block_cache_size_mb * 1024 * 1024)): two
\* uint64_t multiplications; the cast to a 64-bit size_t keeps the value.
BlockCacheCapacity(block_cache_size_mb) ==
  MulU64(MulU64(block_cache_size_mb, 1024), 1024)

\* ColumnFamilyOptions::OptimizeForPointLookup
OptimizeForPointLookup(o, block_cache_size_mb) ==
  LET block_based_options ==
        [ DefaultBlockBasedTableOptions EXCEPT
            !.index_type = "kHashSearch",
            !.filter_bits_per_key = 10,
            !.block_cache_capacity = BlockCacheCapacity(block_cache_size_mb) ]
  IN  [ o EXCEPT !.prefix_extractor = Obj("rocksdb.Noop"),
                 !.table_factory = BlockBasedTableFactory(block_based_options),
                 !.memtable_prefix_bloom_size_ratio = "0.02" ]

\* The loop of OptimizeLevelStyleCompaction over compression_per_level, after
\* compression_per_level.resize(num_levels) (new entries are value-initialised).
CompressLevelsFromTwo(compression_per_level, num_levels) ==
  LET resized == Resize(compression_per_level, num_levels, kNoCompression)
  IN  [ i \in 1..Len(resized) |->
          IF i - 1 < num_levels
            THEN (IF i - 1 < 2 THEN kNoCompression ELSE kSnappyCompression)
            ELSE resized[i] ]

\* OptimizeLevelStyleCompaction with the two divisors exchanged.
OptimizeLevelStyleCompaction_DivisorsSwapped(o, memtable_memory_budget) ==
  [ o EXCEPT
      !.write_buffer_size = memtable_memory_budget \div 8,
      !.min_write_buffer_number_to_merge = 2,
      !.max_write_buffer_number = 6,
      !.level0_file_num_compaction_trigger = 2,
      !.target_file_size_base = memtable_memory_budget \div 4,
      !.max_bytes_for_level_base = memtable_memory_budget,
      !.compaction_style = kCompactionStyleLevel,
      !.compression_per_level =
         CompressLevelsFromTwo(o.compression_per_level, o.num_levels) ]

\* ColumnFamilyOptions::OptimizeLevelStyleCompaction
OptimizeLevelStyleCompaction(o, memtable_memory_budget) ==
  [ o EXCEPT
      !.write_buffer_size = memtable_memory_budget \div 4,
      !.min_write_buffer_number_to_merge = 2,
      !.max_write_buffer_number = 6,
      !.level0_file_num_compaction_trigger = 2,
      !.target_file_size_base = memtable_memory_budget \div 8,
      !.max_bytes_for_level_base = memtable_memory_budget,
      !.compaction_style = kCompactionStyleLevel,
      !.compression_per_level =
         CompressLevelsFromTwo(o.compression_per_level, o.num_levels) ]

\* OptimizeUniversalStyleCompaction raising the buffer count by 4 instead of
\* setting it to 6.
OptimizeUniversalStyleCompaction_Increment(o, memtable_memory_budget) ==
  [ o EXCEPT
      !.write_buffer_size = memtable_memory_budget \div 4,
      !.min_write_buffer_number_to_merge = 2,
      !.max_write_buffer_number = o.max_write_buffer_number + 4,
      !.compaction_style = kCompactionStyleUniversal,
      !.compaction_options_universal.compression_size_percent = 80 ]

\* ColumnFamilyOptions::OptimizeUniversalStyleCompaction
OptimizeUniversalStyleCompaction(o, memtable_memory_budget) ==
  [ o EXCEPT
      !.write_buffer_size = memtable_memory_budget \div 4,
      !.min_write_buffer_number_to_merge = 2,
      !.max_write_buffer_number = 6,
      !.compaction_style = kCompactionStyleUniversal,
      !.compaction_options_universal.compression_size_percent = 80 ]

\* DBOptions::IncreaseParallelism: the two assignments
IncreaseParallelism(o, total_threads) ==
  [ o EXCEPT !.max_background_compactions = total_threads - 1,
             !.max_background_flushes = 1 ]

\* SetBackgroundThreadsCalls with the two pools exchanged.
SetBackgroundThreadsCalls_PoolsSwapped(total_threads) ==
  << [ number |-> 1, pri |-> "HIGH" ],
     [ number |-> total_threads, pri |-> "LOW" ] >>

\* DBOptions::IncreaseParallelism: the calls on env, in program order
SetBackgroundThreadsCalls(total_threads) ==
  << [ number |-> total_threads, pri |-> "LOW" ],
     [ number |-> 1, pri |-> "HIGH" ] >>

(***************************************************************************)
(* Inputs of the transformers.                                             *)
(***************************************************************************)
\* the transformers applied to one configuration in one behaviour
MaxPresets == 2

Budgets == { 0, 9, 512 * 1048576 }

Versions == { <<3, 9>>, <<4, 6>>, <<4, 7>>, <<5, 1>>, <<5, 2>>, <<6, 0>> }

ThreadCounts == { 0, 1, 16 }

\* 0, 1, 512, 2^44 - 1, 2^44 and 2^64 - 1 MiB
CacheSizes == { << 0, 0, 0, 0 >>, << 1, 0, 0, 0 >>, << 512, 0, 0, 0 >>,
                << 65535, 65535, 4095, 0 >>, << 0, 0, 4096, 0 >>,
                << 65535, 65535, 65535, 65535 >> }

(***************************************************************************)
(* The transformers as actions on opt.                                     *)
(***************************************************************************)
MayApplyPreset == Running /\ last.presets < MaxPresets

Apply(op, arg, result, env) ==
  /\ opt' = result
  /\ last' = [ Record(op, arg, opt, NoResult, <<>>, env, "ok")
                 EXCEPT !.presets = last.presets + 1 ]
  /\ UNCHANGED build

CallPrepareForBulkLoad ==
  /\ MayApplyPreset
  /\ Apply("PrepareForBulkLoad", <<>>, PrepareForBulkLoad(opt), <<>>)

CallOptionsOldDefaults ==
  /\ MayApplyPreset
  /\ \E v \in Versions :
       Apply("Options::OldDefaults", v,
             Options_OldDefaults(opt, v[1], v[2]), <<>>)

CallDBOptionsOldDefaults ==
  /\ MayApplyPreset
  /\ \E v \in Versions :
       Apply("DBOptions::OldDefaults", v,
             DBOptions_OldDefaults(opt, v[1], v[2]), <<>>)

CallColumnFamilyOptionsOldDefaults ==
  /\ MayApplyPreset
  /\ \E v \in Versions :
       Apply("ColumnFamilyOptions::OldDefaults", v,
             ColumnFamilyOptions_OldDefaults(opt, v[1], v[2]), <<>>)

CallOptionsOptimizeForSmallDb ==
  /\ MayApplyPreset
  /\ Apply("Options::OptimizeForSmallDb", <<>>,
           Options_OptimizeForSmallDb(opt), <<>>)

CallDBOptionsOptimizeForSmallDb ==
  /\ MayApplyPreset
  /\ Apply("DBOptions::OptimizeForSmallDb", <<>>,
           DBOptions_OptimizeForSmallDb(opt), <<>>)

CallColumnFamilyOptionsOptimizeForSmallDb ==
  /\ MayApplyPreset
  /\ Apply("ColumnFamilyOptions::OptimizeForSmallDb", <<>>,
           ColumnFamilyOptions_OptimizeForSmallDb(opt), <<>>)

CallOptimizeForPointLookup ==
  /\ MayApplyPreset
  /\ \E block_cache_size_mb \in CacheSizes :
       Apply("OptimizeForPointLookup", <<block_cache_size_mb>>,
             OptimizeForPointLookup(opt, block_cache_size_mb), <<>>)

CallOptimizeLevelStyleCompaction ==
  /\ MayApplyPreset
  /\ \E memtable_memory_budget \in Budgets :
       Apply("OptimizeLevelStyleCompaction", <<memtable_memory_budget>>,
             OptimizeLevelStyleCompaction(opt, memtable_memory_budget), <<>>)

CallOptimizeUniversalStyleCompaction ==
  /\ MayApplyPreset
  /\ \E memtable_memory_budget \in Budgets :
       Apply("OptimizeUniversalStyleCompaction", <<memtable_memory_budget>>,
             OptimizeUniversalStyleCompaction(opt, memtable_memory_budget),
             <<>>)

CallIncreaseParallelism ==
  /\ MayApplyPreset
  /\ \E total_threads \in ThreadCounts :
       Apply("IncreaseParallelism", <<total_threads>>,
             IncreaseParallelism(opt, total_threads),
             SetBackgroundThreadsCalls(total_threads))

\* Construction, derivation and reporting.
NextCompose ==
  \/ NewOptions
  \/ DeriveColumnFamilyOptions
  \/ DeriveDBOptions
  \/ SplitAndReassemble
  \/ DumpCFOptions

\* The preset transformers.
NextPreset ==
  \/ CallPrepareForBulkLoad
  \/ CallOptionsOldDefaults
  \/ CallDBOptionsOldDefaults
  \/ CallColumnFamilyOptionsOldDefaults
  \/ CallOptionsOptimizeForSmallDb
  \/ CallDBOptionsOptimizeForSmallDb
  \/ CallColumnFamilyOptionsOptimizeForSmallDb
  \/ CallOptimizeForPointLookup
  \/ CallOptimizeLevelStyleCompaction
  \/ CallOptimizeUniversalStyleCompaction
  \/ CallIncreaseParallelism

Next == NextCompose \/ NextPreset

\* Every operation, from the baseline configurations.
Spec == Init /\ [][Next]_vars

\* Construction, derivation and reporting alone, from every assigned
\* configuration.
SpecCompose == InitAssigned /\ [][NextCompose]_vars

\* Sequences of preset transformers alone, from the baseline configurations.
SpecPreset == Init /\ [][NextPreset]_vars

\* Sequences of preset transformers alone, from the application-tuned
\* configurations.
SpecTuned == InitTuned /\ [][NextPreset]_vars

(***************************************************************************)
(* Properties.                                                             *)
(***************************************************************************)
Derived == last.op = "ColumnFamilyOptions" /\ last.outcome = "ok"

\* C1 (as claimed): splitting any Options value into DBOptions and
\* ColumnFamilyOptions and reassembling the two gives back a value equal to
\* the original in every field.
C1_RoundTripIsIdentity ==
  (last.op = "Options(db,cf)" /\ last.outcome = "ok") => last.out = last.pre

\* C2: deriving the column-family options from an Options value with
\* num_levels >= 1 leaves max_bytes_for_level_multiplier_additional at least
\* num_levels long; the entries of the source keep position and value, every
\* added entry is 1, and a vector that was long enough is left as it was.
C2_AdditionalPaddedNotTruncated ==
  (Derived /\ last.pre.num_levels >= 1) =>
    LET src == last.pre.max_bytes_for_level_multiplier_additional
        dst == last.out.max_bytes_for_level_multiplier_additional
    IN  /\ Len(dst) >= last.pre.num_levels
        /\ Len(dst) >= Len(src)
        /\ \A i \in 1..Len(src) : dst[i] = src[i]
        /\ \A i \in (Len(src) + 1)..Len(dst) : dst[i] = 1
        /\ Len(src) >= last.pre.num_levels => dst = src

\* C2 witness: a derivation that padded a non-empty, too short vector.
C2_Witness ==
  /\ Derived
  /\ last.pre.num_levels >= 1
  /\ Len(last.pre.max_bytes_for_level_multiplier_additional) >= 1
  /\ Len(last.pre.max_bytes_for_level_multiplier_additional)
       < last.pre.num_levels
  /\ Len(last.out.max_bytes_for_level_multiplier_additional)
       = last.pre.num_levels

\* C3 (as claimed): memtable_factory and table_factory are non-null after
\* default construction, after deriving ColumnFamilyOptions from any Options
\* value, and after any preset transformer.
C3_FactoriesNeverNull ==
  /\ Derived => /\ ~ last.out.memtable_factory.isnull
                /\ ~ last.out.table_factory.isnull
  /\ (last.outcome = "ok" /\ last.op \notin { "assign", "ColumnFamilyOptions",
                                             "DBOptions", "Options(db,cf)",
                                             "Dump" })
       => /\ ~ opt.memtable_factory.isnull
          /\ ~ opt.table_factory.isnull

\* C4: after OptimizeLevelStyleCompaction(B), whatever the configuration was:
\* write_buffer_size is B/4 and target_file_size_base is B/8 (rounded down),
\* max_bytes_for_level_base is B, the merge threshold is 2, the buffer count
\* 6, the level-0 trigger 2, the style is level, and with num_levels >= 3
\* levels 0 and 1 are uncompressed and every level from 2 to num_levels - 1
\* is compressed.
C4_LevelStyleDerivations ==
  last.op = "OptimizeLevelStyleCompaction" =>
    LET B == last.arg[1] IN
    /\ 4 * opt.write_buffer_size <= B /\ B < 4 * (opt.write_buffer_size + 1)
    /\ 8 * opt.target_file_size_base <= B
    /\ B < 8 * (opt.target_file_size_base + 1)
    /\ opt.max_bytes_for_level_base = B
    /\ opt.min_write_buffer_number_to_merge = 2
    /\ opt.max_write_buffer_number = 6
    /\ opt.level0_file_num_compaction_trigger = 2
    /\ opt.compaction_style = kCompactionStyleLevel
    /\ opt.num_levels >= 3 =>
         /\ Len(opt.compression_per_level) >= opt.num_levels
         /\ opt.compression_per_level[1] = kNoCompression
         /\ opt.compression_per_level[2] = kNoCompression
         /\ \A i \in 2..(opt.num_levels - 1) :
              opt.compression_per_level[i + 1] = kSnappyCompression

\* C4 witness: the transformer ran with a budget that does not divide evenly
\* on a configuration with at least four levels.
C4_Witness ==
  /\ last.op = "OptimizeLevelStyleCompaction"
  /\ last.arg[1] = 9
  /\ opt.num_levels >= 4
  /\ opt.write_buffer_size = 2
  /\ opt.target_file_size_base = 1

LexLess(v, w) == v[1] < w[1] \/ (v[1] = w[1] /\ v[2] < w[2])

Unchanged(fields) == \A f \in fields : opt[f] = last.pre[f]

\* C5: in OldDefaults the pre-4.7 fields are written exactly when the version
\* is lexicographically below (4,7) and delayed_write_rate exactly when it is
\* below (5,2); at (4,7), (5,2) and above the fields keep their values.  The
\* level-0 stop trigger follows the same kind of test: 24 below (5,0), 30
\* below (5,2), kept from (5,2) on.
C5_OldDefaultsStrictCutoffs ==
  /\ last.op \in { "DBOptions::OldDefaults", "Options::OldDefaults" } =>
       /\ IF LexLess(last.arg, <<4, 7>>)
            THEN /\ opt.max_file_opening_threads = 1
                 /\ opt.table_cache_numshardbits = 4
            ELSE Unchanged({ "max_file_opening_threads",
                             "table_cache_numshardbits" })
       /\ IF LexLess(last.arg, <<5, 2>>)
            THEN opt.delayed_write_rate = 2097152
            ELSE Unchanged({ "delayed_write_rate" })
  /\ last.op \in { "ColumnFamilyOptions::OldDefaults",
                   "Options::OldDefaults" } =>
       IF LexLess(last.arg, <<4, 7>>)
         THEN /\ opt.write_buffer_size = 4194304
              /\ opt.target_file_size_base = 2097152
              /\ opt.max_bytes_for_level_base = 10485760
              /\ opt.soft_pending_compaction_bytes_limit = 0
              /\ opt.hard_pending_compaction_bytes_limit = 0
         ELSE Unchanged({ "write_buffer_size", "target_file_size_base",
                          "max_bytes_for_level_base",
                          "soft_pending_compaction_bytes_limit",
                          "hard_pending_compaction_bytes_limit" })
  /\ last.op \in { "ColumnFamilyOptions::OldDefaults",
                   "Options::OldDefaults" } =>
       IF LexLess(last.arg, <<5, 0>>)
         THEN opt.level0_stop_writes_trigger = 24
       ELSE IF LexLess(last.arg, <<5, 2>>)
         THEN opt.level0_stop_writes_trigger = 30
       ELSE Unchanged({ "level0_stop_writes_trigger" })

\* C5 witness: OldDefaults(4,7), exactly at the cutoff, on a configuration
\* whose pre-4.7 fields differ from the old defaults, and they are kept.
C5_Witness ==
  /\ last.op = "Options::OldDefaults"
  /\ last.arg = <<4, 7>>
  /\ last.pre.max_file_opening_threads # 1
  /\ last.pre.write_buffer_size # 4194304
  /\ opt.max_file_opening_threads = last.pre.max_file_opening_threads
  /\ opt.write_buffer_size = last.pre.write_buffer_size
  /\ opt.delayed_write_rate = 2097152

\* C6: a preset transformer applied a second time with the same input leaves
\* every field as the first application left it.
C6_PresetsIdempotent == [][ last'.again => opt' = opt ]_vars

\* C6 witness: a transformer that computes from its input was applied twice
\* in a row with the same input.
C6_Witness ==
  /\ last.again
  /\ last.op = "OptimizeUniversalStyleCompaction"
  /\ last.arg[1] > 0
  /\ last.presets = 2

PointLookupInstalled ==
  /\ ~ opt.table_factory.isnull
  /\ opt.table_factory.cfg.index_type = "kHashSearch"
  /\ opt.table_factory.cfg.filter_bits_per_key = 10
  /\ ~ opt.prefix_extractor.isnull
  /\ opt.prefix_extractor.name = "rocksdb.Noop"
  /\ opt.memtable_prefix_bloom_size_ratio = "0.02"

\* C * 1024 * 1024 as an unbounded number (six limbs)
MiBExact(block_cache_size_mb) ==
  MulExact(MulExact(block_cache_size_mb, 1024), 1024)

\* C7 (as claimed): for every 64-bit cache size C in MiB,
\* OptimizeForPointLookup(C) installs the hash-search index, the 10-bit bloom
\* filter, the no-op prefix extractor and the 0.02 ratio, and the block
\* cache's capacity is the number C * 1024 * 1024, nothing wrapped around.
C7_CapacityIsExactProduct ==
  last.op = "OptimizeForPointLookup" =>
    /\ PointLookupInstalled
    /\ opt.table_factory.cfg.block_cache_capacity \o << 0, 0 >>
         = MiBExact(last.arg[1])

\* 2^44 MiB is 2^64 bytes: the first size whose product leaves 64 bits
BelowTwoTo44(x) == x[4] = 0 /\ x[3] < 4096

\* C7 (amended): OptimizeForPointLookup(C) installs the hash-search index,
\* the 10-bit bloom filter, the no-op prefix extractor and the 0.02 ratio;
\* the capacity is C * 1024 * 1024 reduced modulo 2^64, which is
\* C * 1024 * 1024 itself exactly when C < 2^44.
C7_CapacityIsProductModulo64Bits ==
  last.op = "OptimizeForPointLookup" =>
    LET capacity == opt.table_factory.cfg.block_cache_capacity
        exact == MiBExact(last.arg[1])
    IN  /\ PointLookupInstalled
        /\ Len(capacity) = 4
        /\ \A i \in 1..4 : capacity[i] = exact[i]
        /\ BelowTwoTo44(last.arg[1]) <=> capacity \o << 0, 0 >> = exact

\* C7 witness: a 512 MiB cache was asked for and a cache of 2^29 bytes was
\* installed.
C7_Witness ==
  /\ last.op = "OptimizeForPointLookup"
  /\ last.arg[1] = << 512, 0, 0, 0 >>
  /\ opt.table_factory.cfg.block_cache_capacity = << 0, 8192, 0, 0 >>

\* C8: IncreaseParallelism(T) sets max_background_compactions to T - 1 and
\* max_background_flushes to 1, asks the environment for T low-priority
\* threads and then for 1 high-priority thread, nothing else, and changes no
\* other field.
C8_IncreaseParallelism ==
  last.op = "IncreaseParallelism" =>
    /\ opt.max_background_compactions + 1 = last.arg[1]
    /\ opt.max_background_flushes = 1
    /\ Len(last.env) = 2
    /\ last.env[1] = [ number |-> last.arg[1], pri |-> "LOW" ]
    /\ last.env[2] = [ number |-> 1, pri |-> "HIGH" ]
    /\ Unchanged(OptionsFields \ { "max_background_compactions",
                                   "max_background_flushes" })

\* C8 witness: IncreaseParallelism(16) changed both fields.
C8_Witness ==
  /\ last.op = "IncreaseParallelism"
  /\ last.arg[1] = 16
  /\ last.pre.max_background_compactions # 15
  /\ last.pre.max_background_flushes # 1
  /\ opt.max_background_compactions = 15

HasLine(log, label) == \E i \in 1..Len(log) : log[i].label = label

LogText(log, label) ==
  LET i == CHOOSE j \in 1..Len(log) : log[j].label = label IN log[i].text

StyleUnnamed(o) == o.compaction_style \notin DOMAIN compaction_style_to_string

PriUnnamed(o) == o.compaction_pri \notin DOMAIN compaction_pri_to_string

\* The dump got as far as an enum field without a name: nothing crashed on
\* the way (the unguarded dereferences all come earlier in the dump).
DumpMetUnnamedEnum ==
  /\ last.op = "Dump"
  /\ last.outcome # "crashed"
  /\ StyleUnnamed(last.pre) \/ PriUnnamed(last.pre)

\* The dump ran to its end and labelled each unnamed enum "unknown_<value>".
ReportedUnknownAndWentOn ==
  /\ last.outcome = "ok"
  /\ last.log[Len(last.log)].label = "Options.report_bg_io_stats"
  /\ StyleUnnamed(last.pre) =>
       /\ HasLine(last.log, "Options.compaction_style")
       /\ LogText(last.log, "Options.compaction_style")
            = "unknown_" \o ToString(last.pre.compaction_style)
  /\ PriUnnamed(last.pre) =>
       /\ HasLine(last.log, "Options.compaction_pri")
       /\ LogText(last.log, "Options.compaction_pri")
            = "unknown_" \o ToString(last.pre.compaction_pri)

\* C9 (as claimed): a dump that meets a compaction_style or compaction_pri
\* without a name does not fail: it reports an "unknown" string for the field
\* and emits all the remaining lines.
C9_UnknownEnumNeverFails == DumpMetUnnamedEnum => ReportedUnknownAndWentOn

\* C9 (amended): in a build without assertions (NDEBUG) the dump reports
\* "unknown_<value>" for the field and emits all the remaining lines; in a
\* build with assertions it stops at assert(false), before the line of the
\* first unnamed field.
C9_UnknownEnumFailsOnlyUnderAssertions ==
  DumpMetUnnamedEnum =>
    IF build.NDEBUG
      THEN ReportedUnknownAndWentOn
      ELSE /\ last.outcome = "aborted"
           /\ last.log[Len(last.log)].label =
                IF StyleUnnamed(last.pre)
                  THEN "Options.disable_auto_compactions"
                  ELSE "Options.compaction_style"

\* C9 witness: a build without assertions dumped a configuration whose
\* compaction_style has no name, and the dump completed.
C9_Witness ==
  /\ DumpMetUnnamedEnum
  /\ build.NDEBUG
  /\ StyleUnnamed(last.pre)
  /\ last.outcome = "ok"
  /\ LogText(last.log, "Options.compaction_style") = "unknown_7"

\* The dump was stopped by assert(false) at an enum value without a name, the
\* case C9 is about.
StoppedAtUnnamedEnum ==
  /\ last.outcome = "aborted"
  /\ ~ build.NDEBUG
  /\ StyleUnnamed(last.pre) \/ PriUnnamed(last.pre)

\* C10 (as claimed): dumping a configuration whose compaction filter is null
\* logs "None" on the compaction_filter line and runs to completion without
\* crashing; a null merge operator and compaction filter factory are logged
\* as "None", null prefix extractors as "nullptr"; no field of the
\* configuration changes.  (A dump stopped by the assertion on an unnamed
\* enum value is C9's case and is not held against this claim.)
C10_NullFilterDumpCompletes ==
  (last.op = "Dump" /\ last.pre.compaction_filter.isnull
     /\ ~ StoppedAtUnnamedEnum) =>
    /\ last.outcome = "ok"
    /\ opt = last.pre
    /\ HasLine(last.log, "Options.compaction_filter")
    /\ LogText(last.log, "Options.compaction_filter") = "None"
    /\ last.pre.merge_operator.isnull =>
         LogText(last.log, "Options.merge_operator") = "None"
    /\ last.pre.compaction_filter_factory.isnull =>
         LogText(last.log, "Options.compaction_filter_factory") = "None"
    /\ last.pre.prefix_extractor.isnull =>
         /\ HasLine(last.log, "Options.prefix_extractor")
         /\ LogText(last.log, "Options.prefix_extractor") = "nullptr"
    /\ last.pre.memtable_insert_with_hint_prefix_extractor.isnull =>
         /\ HasLine(last.log,
                    "Options.memtable_insert_with_hint_prefix_extractor")
         /\ LogText(last.log,
                    "Options.memtable_insert_with_hint_prefix_extractor")
              = "nullptr"

Level0Ordered(o) ==
  /\ o.level0_file_num_compaction_trigger <= o.level0_slowdown_writes_trigger
  /\ o.level0_slowdown_writes_trigger <= o.level0_stop_writes_trigger

Level0Transformers ==
  { "PrepareForBulkLoad", "Options::OptimizeForSmallDb",
    "DBOptions::OptimizeForSmallDb", "ColumnFamilyOptions::OptimizeForSmallDb",
    "OptimizeLevelStyleCompaction", "OptimizeUniversalStyleCompaction",
    "Options::OldDefaults", "DBOptions::OldDefaults",
    "ColumnFamilyOptions::OldDefaults" }

\* C11 (as claimed): PrepareForBulkLoad, OptimizeForSmallDb,
\* OptimizeLevelStyleCompaction, OptimizeUniversalStyleCompaction and
\* OldDefaults, applied to a configuration whose level-0 thresholds are in
\* the order compaction trigger <= slowdown trigger <= stop trigger, leave
\* them in that order.
C11_Level0ThresholdsStayOrdered ==
  [][ (last'.op \in Level0Transformers /\ Level0Ordered(opt))
        => Level0Ordered(opt') ]_vars

NothingAssigned == [ f \in {} |-> 0 ]

When(cond, assigned) == IF cond THEN assigned ELSE NothingAssigned

\* The scalar fields a transformer assigns and the values it assigns them,
\* by transformer and argument.
AssignedByDBOldDefaults(v) ==
  When(LexLess(v, <<4, 7>>),
       [ max_file_opening_threads |-> 1, table_cache_numshardbits |-> 4 ])
  @@ When(LexLess(v, <<5, 2>>), [ delayed_write_rate |-> 2097152 ])
  @@ [ max_open_files |-> 5000, base_background_compactions |-> -1,
       wal_recovery_mode |-> kTolerateCorruptedTailRecords ]

AssignedByCFOldDefaults(v) ==
  When(LexLess(v, <<4, 7>>),
       [ write_buffer_size |-> 4194304, target_file_size_base |-> 2097152,
         max_bytes_for_level_base |-> 10485760,
         soft_pending_compaction_bytes_limit |-> 0,
         hard_pending_compaction_bytes_limit |-> 0 ])
  @@ When(LexLess(v, <<5, 2>>),
          [ level0_stop_writes_trigger |->
              IF LexLess(v, <<5, 0>>) THEN 24 ELSE 30 ])
  @@ [ compaction_pri |-> kByCompensatedSize ]

AssignedByDBSmallDb ==
  [ max_file_opening_threads |-> 1, max_open_files |-> 5000 ]

AssignedByCFSmallDb ==
  [ write_buffer_size |-> 2097152, target_file_size_base |-> 2097152,
    max_bytes_for_level_base |-> 10485760,
    soft_pending_compaction_bytes_limit |-> 268435456,
    hard_pending_compaction_bytes_limit |-> 1073741824 ]

Assigned(op, arg) ==
  CASE op = "PrepareForBulkLoad" ->
         [ level0_file_num_compaction_trigger |-> 1073741824,
           level0_slowdown_writes_trigger |-> 1073741824,
           level0_stop_writes_trigger |-> 1073741824,
           soft_pending_compaction_bytes_limit |-> 0,
           hard_pending_compaction_bytes_limit |-> 0,
           disable_auto_compactions |-> TRUE,
           max_compaction_bytes |-> << 0, 0, 0, 4096 >>,
           num_levels |-> 2,
           max_write_buffer_number |-> 6,
           min_write_buffer_number_to_merge |-> 1,
           max_background_flushes |-> 4,
           max_background_compactions |-> 2,
           base_background_compactions |-> 2,
           target_file_size_base |-> 268435456 ]
    [] op = "DBOptions::OldDefaults" -> AssignedByDBOldDefaults(arg)
    [] op = "ColumnFamilyOptions::OldDefaults" -> AssignedByCFOldDefaults(arg)
    [] op = "Options::OldDefaults" ->
         AssignedByCFOldDefaults(arg) @@ AssignedByDBOldDefaults(arg)
    [] op = "DBOptions::OptimizeForSmallDb" -> AssignedByDBSmallDb
    [] op = "ColumnFamilyOptions::OptimizeForSmallDb" -> AssignedByCFSmallDb
    [] op = "Options::OptimizeForSmallDb" ->
         AssignedByCFSmallDb @@ AssignedByDBSmallDb
    [] op = "OptimizeForPointLookup" ->
         [ memtable_prefix_bloom_size_ratio |-> "0.02" ]
    [] op = "OptimizeLevelStyleCompaction" ->
         [ write_buffer_size |-> arg[1] \div 4,
           min_write_buffer_number_to_merge |-> 2,
           max_write_buffer_number |-> 6,
           level0_file_num_compaction_trigger |-> 2,
           target_file_size_base |-> arg[1] \div 8,
           max_bytes_for_level_base |-> arg[1],
           compaction_style |-> kCompactionStyleLevel ]
    [] op = "OptimizeUniversalStyleCompaction" ->
         [ write_buffer_size |-> arg[1] \div 4,
           min_write_buffer_number_to_merge |-> 2,
           max_write_buffer_number |-> 6,
           compaction_style |-> kCompactionStyleUniversal ]
    [] op = "IncreaseParallelism" ->
         [ max_background_compactions |-> arg[1] - 1,
           max_background_flushes |-> 1 ]

\* The fields holding one number, flag or enumerator: every field but the
\* pointers to collaborators, the vectors, the strings and the nested
\* structures.
ScalarFields ==
  OptionsFields \ (PointerFields \cup ListFields
                    \cup { "comparator", "memtable_factory", "table_factory",
                           "env", "max_bytes_for_level_multiplier_additional",
                           "db_log_dir", "wal_dir",
                           "compaction_options_universal",
                           "compaction_options_fifo", "compression_opts" })

\* C12: in every sequence of preset transformers each scalar field holds,
\* after each transformer, the value that transformer assigns it, whatever
\* it held before, and otherwise the value it held before; so a field ends
\* with the value of the last transformer that writes it.  In particular
\* PrepareForBulkLoad then OptimizeLevelStyleCompaction(B) ends with merge
\* threshold 2, level-0 compaction trigger 2 and target file size B/8, and
\* the reverse order with 1, 2^30 and 256 MiB.
C12_LastWriterWins ==
  [][ /\ \A f \in ScalarFields :
            opt'[f] = IF f \in DOMAIN Assigned(last'.op, last'.arg)
                        THEN Assigned(last'.op, last'.arg)[f]
                        ELSE opt[f]
      /\ (last.op = "PrepareForBulkLoad"
             /\ last'.op = "OptimizeLevelStyleCompaction") =>
            /\ opt'.min_write_buffer_number_to_merge = 2
            /\ opt'.level0_file_num_compaction_trigger = 2
            /\ opt'.target_file_size_base = last'.arg[1] \div 8
      /\ (last.op = "OptimizeLevelStyleCompaction"
             /\ last'.op = "PrepareForBulkLoad") =>
            /\ opt'.min_write_buffer_number_to_merge = 1
            /\ opt'.level0_file_num_compaction_trigger = 1073741824
            /\ opt'.target_file_size_base = 268435456 ]_vars

\* C12 witness: PrepareForBulkLoad applied after
\* OptimizeLevelStyleCompaction(512 MiB) has overwritten the three fields
\* the earlier transformer wrote.
C12_Witness ==
  /\ last.op = "PrepareForBulkLoad"
  /\ last.pre.min_write_buffer_number_to_merge = 2
  /\ last.pre.level0_file_num_compaction_trigger = 2
  /\ last.pre.target_file_size_base = 67108864
  /\ last.pre.num_levels > 2
  /\ opt.min_write_buffer_number_to_merge = 1
  /\ opt.level0_file_num_compaction_trigger = 1073741824
  /\ opt.target_file_size_base = 268435456
  /\ opt.num_levels = 2

CFTransformers ==
  { "ColumnFamilyOptions::OldDefaults",
    "ColumnFamilyOptions::OptimizeForSmallDb", "OptimizeForPointLookup",
    "OptimizeLevelStyleCompaction", "OptimizeUniversalStyleCompaction" }

DBTransformers ==
  { "DBOptions::OldDefaults", "DBOptions::OptimizeForSmallDb",
    "IncreaseParallelism" }

\* The transformer named op, with argument arg, applied to o.
Transform(op, arg, o) ==
  CASE op = "ColumnFamilyOptions::OldDefaults" ->
         ColumnFamilyOptions_OldDefaults(o, arg[1], arg[2])
    [] op = "ColumnFamilyOptions::OptimizeForSmallDb" ->
         ColumnFamilyOptions_OptimizeForSmallDb(o)
    [] op = "OptimizeForPointLookup" -> OptimizeForPointLookup(o, arg[1])
    [] op = "OptimizeLevelStyleCompaction" ->
         OptimizeLevelStyleCompaction(o, arg[1])
    [] op = "OptimizeUniversalStyleCompaction" ->
         OptimizeUniversalStyleCompaction(o, arg[1])
    [] op = "DBOptions::OldDefaults" ->
         DBOptions_OldDefaults(o, arg[1], arg[2])
    [] op = "DBOptions::OptimizeForSmallDb" -> DBOptions_OptimizeForSmallDb(o)
    [] op = "IncreaseParallelism" -> IncreaseParallelism(o, arg[1])

\* C13: a column-family transformer leaves every database-wide field as it
\* was and a database-wide transformer leaves every column-family field as
\* it was; a column-family transformer and a database-wide transformer
\* applied one after the other give the configuration the opposite order
\* gives; and Options::OldDefaults and Options::OptimizeForSmallDb give what
\* their two halves give with the database-wide half run first.
C13_ScopesSeparateAndCommute ==
  [][ /\ last'.op \in CFTransformers =>
            \A f \in DBFields : opt'[f] = opt[f]
      /\ last'.op \in DBTransformers =>
            \A f \in CFFields : opt'[f] = opt[f]
      /\ (\/ last.op \in CFTransformers /\ last'.op \in DBTransformers
          \/ last.op \in DBTransformers /\ last'.op \in CFTransformers) =>
            opt' = Transform(last.op, last.arg,
                             Transform(last'.op, last'.arg, last.pre))
      /\ last'.op = "Options::OldDefaults" =>
            opt' = ColumnFamilyOptions_OldDefaults(
                     DBOptions_OldDefaults(opt, last'.arg[1], last'.arg[2]),
                     last'.arg[1], last'.arg[2])
      /\ last'.op = "Options::OptimizeForSmallDb" =>
            opt' = ColumnFamilyOptions_OptimizeForSmallDb(
                     DBOptions_OptimizeForSmallDb(opt)) ]_vars

\* C13 witness: OptimizeLevelStyleCompaction(512 MiB) applied to a
\* configuration a database-wide transformer had changed has changed
\* column-family fields and left every database-wide field alone.
C13_Witness ==
  /\ last.op = "OptimizeLevelStyleCompaction"
  /\ last.arg = << 536870912 >>
  /\ last.presets = 2
  /\ last.pre.max_open_files = 5000
  /\ last.pre.max_file_opening_threads = 1
  /\ last.pre.write_buffer_size = 67108864
  /\ opt.write_buffer_size = 134217728
  /\ opt.max_bytes_for_level_base = 536870912
  /\ \A f \in DBFields : opt[f] = last.pre[f]

SoftWithinHard(o) ==
  o.soft_pending_compaction_bytes_limit
    <= o.hard_pending_compaction_bytes_limit

\* C14: a transformer applied to a configuration whose soft pending-
\* compaction limit is no greater than the hard one leaves it no greater;
\* PrepareForBulkLoad and OldDefaults below version 4.7 write both limits as
\* 0, OptimizeForSmallDb writes 256 MiB and 1 GiB, and every other
\* transformer and version leaves both as they were.
C14_SoftLimitWithinHardLimit ==
  [][ /\ SoftWithinHard(opt) => SoftWithinHard(opt')
      /\ IF \/ last'.op = "PrepareForBulkLoad"
            \/ /\ last'.op \in { "ColumnFamilyOptions::OldDefaults",
                                  "Options::OldDefaults" }
               /\ LexLess(last'.arg, <<4, 7>>)
            THEN /\ opt'.soft_pending_compaction_bytes_limit = 0
                 /\ opt'.hard_pending_compaction_bytes_limit = 0
          ELSE IF last'.op \in { "ColumnFamilyOptions::OptimizeForSmallDb",
                                 "Options::OptimizeForSmallDb" }
            THEN /\ opt'.soft_pending_compaction_bytes_limit = 268435456
                 /\ opt'.hard_pending_compaction_bytes_limit = 1073741824
          ELSE /\ opt'.soft_pending_compaction_bytes_limit
                    = opt.soft_pending_compaction_bytes_limit
               /\ opt'.hard_pending_compaction_bytes_limit
                    = opt.hard_pending_compaction_bytes_limit ]_vars

\* C14 witness: OptimizeForSmallDb applied to a configuration with both
\* limits at 2^31 - 1, above both values it writes, has written both.
C14_Witness ==
  /\ last.op = "ColumnFamilyOptions::OptimizeForSmallDb"
  /\ last.pre.soft_pending_compaction_bytes_limit = 2147483647
  /\ last.pre.hard_pending_compaction_bytes_limit = 2147483647
  /\ opt.soft_pending_compaction_bytes_limit = 268435456
  /\ opt.hard_pending_compaction_bytes_limit = 1073741824

====
